---- MODULE Spec2Model ----
(***************************************************************************)
(* The AI Design Studio browser client: the App component's transfer       *)
(* workflow (uploads, style transfer, reset), the HTTP calls it has in     *)
(* flight, and the blob URLs it creates for previews; the StyleMixer       *)
(* component with the clock it takes its entries' ids from; and the        *)
(* Gallery component with the stored results it lists and deletes.         *)
(*                                                                         *)
(* React state slots are the variables.  A handler runs to its first await *)
(* in one step; the backend's answer to a call is a step of the            *)
(* environment; the handler's continuation after the await is one step.    *)
(* Numbers with one decimal (the intensity slider) are kept in tenths.     *)
(***************************************************************************)
EXTENDS Integers, Sequences, FiniteSets, TLC

VARIABLES
    envApiUrl,           \* process.env.REACT_APP_API_URL ("" when unset)
    contentImage,        \* App state: null or {filename, path, preview}
    styleImage,          \* App state: null or {filename, path, preview}
    resultImage,         \* App state: null or {filename, url, processingTime}
    isProcessing,        \* App state
    processingProgress,  \* App state
    styleIntensity,      \* App state, in tenths (10 is 1.0)
    quality,             \* App state
    error,               \* App state: null or a message
    uploadCalls,         \* api.uploadImage calls whose handler has not resumed
    transferCalls,       \* api.styleTransfer/quickTransfer calls, likewise
    objectURLs,          \* blob URLs created and not revoked
    blobSeq,             \* number of blob URLs created so far
    styles,              \* StyleMixer state: the list of {id, weight, name},
                         \* weights JavaScript numbers
    dateNow,             \* what Date.now() returns
    mixed,               \* the arguments of the onMixStyles calls made by
                         \* the step just taken: none, or one list
    showGallery,         \* App state: the Gallery component is mounted
    images,              \* Gallery state: the list of {filename}
    loading,             \* Gallery state
    selectedImage,       \* Gallery state: null or an entry of the list
    galleryCalls,        \* api.getGallery calls whose fetchGallery has not
                         \* resumed
    deleteCalls,         \* api.deleteFromGallery calls whose handleDelete
                         \* has not resumed, each with the images its
                         \* handleDelete closed over
    galleryStore,        \* the files the backend's gallery holds
    alerted,             \* the step just taken showed the alert 'Failed to
                         \* delete image'
    apiCalls             \* calls in flight of the api functions that no
                         \* component calls

vars == <<envApiUrl, contentImage, styleImage, resultImage, isProcessing,
          processingProgress, styleIntensity, quality, error, uploadCalls,
          transferCalls, objectURLs, blobSeq, styles, dateNow, mixed,
          showGallery, images, loading, selectedImage, galleryCalls,
          deleteCalls, galleryStore, alerted, apiCalls>>

\* the Gallery component, the App's switch that mounts it, its calls in
\* flight and the backend's gallery
galleryVars == <<showGallery, images, loading, selectedImage, galleryCalls,
                 deleteCalls, galleryStore, alerted>>

\* the StyleMixer component and the clock it reads
mixerVars == <<styles, dateNow, mixed>>

\* the App component, its calls in flight and its blob URLs
studioVars == <<envApiUrl, contentImage, styleImage, resultImage,
                isProcessing, processingProgress, styleIntensity, quality,
                error, uploadCalls, transferCalls, objectURLs, blobSeq,
                apiCalls>>

appVars == <<contentImage, styleImage, resultImage, isProcessing,
             processingProgress, styleIntensity, quality, error>>

----------------------------------------------------------------------------
(* Bounds of the model *)

\* blob URLs created in one behaviour (an upload starts only while the
\* uploads in flight can all still get one)
MaxBlobs == 3

\* upload calls in flight at once
MaxInFlightUploads == 2

\* transfer calls in flight at once
MaxInFlightTransfers == 2

\* the last millisecond of the behaviour: Date.now() runs from FirstNow to
\* MaxNow
MaxNow == 3

\* getGallery calls in flight at once
MaxInFlightFetches == 1

\* deleteFromGallery calls in flight at once
MaxInFlightDeletes == 2

\* calls in flight at once of the api functions that no component calls
MaxInFlightApiCalls == 1

----------------------------------------------------------------------------
(* Values *)

\* JavaScript null (an object slot that holds nothing)
Null == [null |-> TRUE]

\* the error slot holding null: the banner renders only for a truthy error,
\* and every message the code stores is a non-empty string
NoError == ""

\* a call the backend has not answered yet
Pending == [pending |-> TRUE]

\* values REACT_APP_API_URL takes ("" is unset, falsy for ||)
EnvApiUrls == {"", "https://studio.example"}

\* files the user drops (png/jpeg, one at a time)
Files == {"cat.png", "vangogh.png"}

\* data the backend returns for a stored upload of file
UploadData(file) ==
    [filename |-> "u_" \o file, path |-> "uploads/u_" \o file]

\* data the backend returns for a finished transfer
TransferData ==
    { [output_image |-> "result_001.png", processing_time |-> "12.3s"],
      [output_image |-> "result_002.png", processing_time |-> "4.0s"] }

\* min and max of the intensity slider, in tenths
IntensityMin == 1

IntensityMax == 20

\* the values asked of the intensity slider, by dragging, by keyboard or by
\* a script setting the input's value: its min, its max, and 2.5, beyond
\* its max (1.0 is the initial value)
IntensityInputs == {1, 20, 25}

\* a range input that reports whatever value is asked of it
RangeValueUnclamped(v, min, max) == v

\* the value an <input type="range"> with the given min and max holds, and
\* reports as e.target.value, when v is asked of it
RangeValue(v, min, max) ==
    IF v < min THEN min ELSE IF v > max THEN max ELSE v

\* the option of the quality select the user changes to ("standard" is the
\* initial one)
QualityInputs == {"high"}

\* Date.now() when the page loads (the id 1 of the first mixer entry is no
\* timestamp of a running page)
FirstNow == 2

\* the most entries the mixer takes
MaxStyles == 4

\* min and max of a weight slider, in tenths
WeightMin == 0

WeightMax == 10

\* the values asked of a weight slider: its min, 0.3, its max, and 1.5,
\* beyond its max (0.5 is the initial value)
WeightInputs == {0, 3, 10, 15}

\* the files the backend's gallery holds when the page loads, in the order
\* it lists them
GalleryFiles == <<"result_001.png", "result_002.png">>

\* sequence s without its i-th element
Remove(s, i) == SubSeq(s, 1, i - 1) \o SubSeq(s, i + 1, Len(s))

----------------------------------------------------------------------------
(* JavaScript numbers.  A number is an IEEE-754 double: NaN, an infinity,   *)
(* or (-1)^neg * (hi * Limb + lo) * 2^exp, the 53-bit significand kept in   *)
(* two limbs with hi in SigTop .. 2 * SigTop - 1; zero has significand 0    *)
(* and exp 0.  Sums and quotients round to nearest, ties to even.  The      *)
(* exponent is not limited: sums and quotients of numbers with one decimal  *)
(* stay far from the largest and the smallest double.                       *)

\* the size of a limb of a significand
Limb == 2^29

\* the leading bit of the upper limb of a 53-bit significand
SigTop == 2^23

\* the leading bit of the upper limb of a significand with three more bits
WideTop == 2^26

NaN == [cls |-> "nan", neg |-> FALSE, hi |-> 0, lo |-> 0, exp |-> 0]

Infinity(neg) == [cls |-> "inf", neg |-> neg, hi |-> 0, lo |-> 0, exp |-> 0]

Zero(neg) == [cls |-> "num", neg |-> neg, hi |-> 0, lo |-> 0, exp |-> 0]

Num(neg, hi, lo, exp) ==
    [cls |-> "num", neg |-> neg, hi |-> hi, lo |-> lo, exp |-> exp]

IsZero(x) == x.cls = "num" /\ x.hi = 0 /\ x.lo = 0

\* x is a number other than NaN and the infinities
IsFinite(x) == x.cls = "num"

\* two-limb naturals: comparison, sum, difference of a and b <= a
WideGeq(a, b) == a.hi > b.hi \/ (a.hi = b.hi /\ a.lo >= b.lo)

WideAdd(a, b) ==
    IF a.lo + b.lo >= Limb
    THEN [hi |-> a.hi + b.hi + 1, lo |-> a.lo + b.lo - Limb]
    ELSE [hi |-> a.hi + b.hi, lo |-> a.lo + b.lo]

WideSub(a, b) ==
    IF a.lo >= b.lo
    THEN [hi |-> a.hi - b.hi, lo |-> a.lo - b.lo]
    ELSE [hi |-> a.hi - b.hi - 1, lo |-> a.lo + Limb - b.lo]

WideDouble(a) == WideAdd(a, a)

\* a shifted right by one bit, a 1 shifted out kept in the lowest bit
WideHalfJam(a) ==
    LET lo == (a.lo \div 2) + (a.hi % 2) * (Limb \div 2)
    IN [hi |-> a.hi \div 2,
        lo |-> IF a.lo % 2 = 1 /\ lo % 2 = 0 THEN lo + 1 ELSE lo]

RECURSIVE ShiftRightJam(_, _)
\* a shifted right by n bits, the lowest bit telling whether a 1 went out
ShiftRightJam(a, n) ==
    IF n = 0 \/ (a.hi = 0 /\ a.lo <= 1)
    THEN a
    ELSE ShiftRightJam(WideHalfJam(a), n - 1)

\* the significand of x with three more bits below it
WithGuardBits(x) ==
    [hi |-> x.hi * 8 + x.lo \div (Limb \div 8),
     lo |-> (x.lo % (Limb \div 8)) * 8]

\* the double nearest to (-1)^neg * z * 2^e, ties to even, for a z of 56
\* bits whose lowest bit stands for all the bits below it
RoundWide(neg, z, e) ==
    LET grs == z.lo % 8
        m   == [hi |-> z.hi \div 8,
                lo |-> (z.lo \div 8) + (z.hi % 8) * (Limb \div 8)]
        up  == grs > 4 \/ (grs = 4 /\ m.lo % 2 = 1)
        r   == IF up THEN WideAdd(m, [hi |-> 0, lo |-> 1]) ELSE m
    IN IF r.hi = 2 * SigTop
       THEN Num(neg, SigTop, 0, e + 4)
       ELSE Num(neg, r.hi, r.lo, e + 3)

RECURSIVE RoundNormalized(_, _, _)
\* RoundWide for a nonzero z of fewer than 56 bits
RoundNormalized(neg, z, e) ==
    IF z.hi >= WideTop
    THEN RoundWide(neg, z, e)
    ELSE RoundNormalized(neg, WideDouble(z), e - 1)

\* |x| >= |y| for nonzero finite x and y
MagGeq(x, y) == x.exp > y.exp \/ (x.exp = y.exp /\ WideGeq(x, y))

\* the JavaScript number x + y
NumberAdd(x, y) ==
    IF x.cls = "nan" \/ y.cls = "nan" THEN NaN
    ELSE IF x.cls = "inf"
    THEN IF y.cls = "inf" /\ y.neg # x.neg THEN NaN ELSE x
    ELSE IF y.cls = "inf" THEN y
    ELSE IF IsZero(x)
    THEN IF IsZero(y) THEN Zero(x.neg /\ y.neg) ELSE y
    ELSE IF IsZero(y) THEN x
    ELSE LET big   == IF MagGeq(x, y) THEN x ELSE y
             small == IF MagGeq(x, y) THEN y ELSE x
             a     == WithGuardBits(big)
             b     == ShiftRightJam(WithGuardBits(small),
                                    big.exp - small.exp)
         IN IF big.neg = small.neg
            THEN LET z == WideAdd(a, b)
                 IN IF z.hi >= 2 * WideTop
                    THEN RoundWide(big.neg, WideHalfJam(z), big.exp - 2)
                    ELSE RoundWide(big.neg, z, big.exp - 3)
            ELSE LET z == WideSub(a, b)
                 IN IF z.hi = 0 /\ z.lo = 0
                    THEN Zero(FALSE)
                    ELSE RoundNormalized(big.neg, z, big.exp - 3)

\* the JavaScript number -x
NumberNeg(x) == IF x.cls = "nan" THEN x ELSE [x EXCEPT !.neg = ~x.neg]

\* the JavaScript number x - y
NumberSub(x, y) == NumberAdd(x, NumberNeg(y))

RECURSIVE QuotientBits(_, _, _)
\* the quotient q of a long division by d with remainder r, carried on
\* until q has 56 bits; at the end a remainder other than 0 sets the lowest
\* bit
QuotientBits(q, r, d) ==
    IF q.hi >= WideTop
    THEN IF (r.hi = 0 /\ r.lo = 0) \/ q.lo % 2 = 1
         THEN q
         ELSE [q EXCEPT !.lo = q.lo + 1]
    ELSE IF WideGeq(WideDouble(r), d)
         THEN QuotientBits(WideAdd(WideDouble(q), [hi |-> 0, lo |-> 1]),
                           WideSub(WideDouble(r), d), d)
         ELSE QuotientBits(WideDouble(q), WideDouble(r), d)

\* the JavaScript number x / y: NaN for 0 / 0, an infinity for another
\* division by zero, else the double nearest to the quotient
NumberDiv(x, y) ==
    IF x.cls = "nan" \/ y.cls = "nan" THEN NaN
    ELSE IF x.cls = "inf"
    THEN IF y.cls = "inf" THEN NaN ELSE Infinity(x.neg # y.neg)
    ELSE IF y.cls = "inf" THEN Zero(x.neg # y.neg)
    ELSE IF IsZero(y)
    THEN IF IsZero(x) THEN NaN ELSE Infinity(x.neg # y.neg)
    ELSE IF IsZero(x) THEN Zero(x.neg # y.neg)
    ELSE LET less == ~WideGeq(x, y)
             n    == IF less THEN WideDouble(x) ELSE [hi |-> x.hi, lo |-> x.lo]
             d    == [hi |-> y.hi, lo |-> y.lo]
             z    == QuotientBits([hi |-> 0, lo |-> 1], WideSub(n, d), d)
         IN RoundWide(x.neg # y.neg, z,
                      x.exp - y.exp - 55 - (IF less THEN 1 ELSE 0))

RECURSIVE Normalized(_, _, _)
\* the double (-1)^neg * w * 2^e for a nonzero w of at most 53 bits
Normalized(neg, w, e) ==
    IF w.hi >= SigTop
    THEN Num(neg, w.hi, w.lo, e)
    ELSE Normalized(neg, WideDouble(w), e - 1)

\* the JavaScript number of an integer n with |n| < Limb
NumberOf(n) ==
    IF n = 0 THEN Zero(FALSE)
    ELSE Normalized(n < 0, [hi |-> 0, lo |-> IF n < 0 THEN -n ELSE n], 0)

\* the double nearest to tenths / 10, which the quotient of the two
\* integers is
NumberOfTenths(tenths) == NumberDiv(NumberOf(tenths), NumberOf(10))

\* the numbers of the tenths around the range of a weight slider, computed
\* once
SliderNumbers ==
    [t \in (WeightMin - WeightMax)..(2 * WeightMax) |-> NumberOfTenths(t)]

\* parseFloat of the decimal string of tenths / 10 ("0.3" for 3): the
\* double nearest to it
parseFloat(tenths) ==
    IF tenths \in DOMAIN SliderNumbers
    THEN SliderNumbers[tenths]
    ELSE NumberOfTenths(tenths)

\* x <= y for finite x and y
NumberLeq(x, y) ==
    IF IsZero(x) /\ IsZero(y) THEN TRUE
    ELSE IF IsZero(x) THEN ~y.neg
    ELSE IF IsZero(y) THEN x.neg
    ELSE IF x.neg # y.neg THEN x.neg
    ELSE IF x.neg THEN MagGeq(x, y) ELSE MagGeq(y, x)

\* Math.abs(x)
NumberAbs(x) == IF x.cls = "nan" THEN x ELSE [x EXCEPT !.neg = FALSE]

----------------------------------------------------------------------------
(* services/api.js *)

API_BASE_URL ==
    IF envApiUrl # "" THEN envApiUrl ELSE "http://localhost:5000"

\* getImageUrl with the base URL left out
getImageUrlNoBase(filename) == "/api/image/" \o filename

getImageUrl(filename) == API_BASE_URL \o "/api/image/" \o filename

uploadImage(role, file) ==
    [role |-> role, url |-> "/api/upload", file |-> file,
     resp |-> Pending]

styleTransfer(data) ==
    [url |-> "/api/transfer", data |-> data,
     timeout |-> "600000", resp |-> Pending]

quickTransfer(data) ==
    [url |-> "/api/quick-transfer", data |-> data,
     timeout |-> "300000", resp |-> Pending]

\* what axios settles upload call c with: a 2xx body with or without
\* data, or a rejection carrying err.message
UploadResponses(c) ==
    { [status |-> "ok", data |-> d] : d \in {UploadData(c.file), Null} }
    \cup { [status |-> "error", message |-> m] :
             m \in {"Request failed with status code 413"} }

\* what axios settles a transfer call c with
TransferResponses(c) ==
    { [status |-> "ok", success |-> TRUE, data |-> d] :
        d \in TransferData \cup {Null} }
    \cup { [status |-> "ok", success |-> FALSE, data |-> Null] }
    \cup { [status |-> "error", message |-> m] :
             m \in {"Network Error", "Request failed with status code 500",
                    "timeout of " \o c.timeout \o "ms exceeded"} }

\* err.message of what the handler's catch receives for response r whose
\* data is read as r.data.<field>
ErrMessage(r, field) ==
    IF r.status = "error"
    THEN r.message
    ELSE "Cannot read properties of undefined (reading '" \o field \o "')"

----------------------------------------------------------------------------
Init ==
    /\ envApiUrl \in EnvApiUrls
    /\ contentImage = Null
    /\ styleImage = Null
    /\ resultImage = Null
    /\ isProcessing = FALSE
    /\ processingProgress = 0
    /\ styleIntensity = 10
    /\ quality = "standard"
    /\ error = NoError
    /\ uploadCalls = <<>>
    /\ transferCalls = <<>>
    /\ objectURLs = {}
    /\ blobSeq = 0
    /\ styles = <<[id |-> 1, weight |-> parseFloat(5), name |-> "Style 1"]>>
    /\ dateNow = FirstNow
    /\ mixed = <<>>
    /\ showGallery = FALSE
    /\ images = <<>>
    /\ loading = TRUE
    /\ selectedImage = Null
    /\ galleryCalls = <<>>
    /\ deleteCalls = <<>>
    /\ galleryStore = {GalleryFiles[k] : k \in DOMAIN GalleryFiles}
    /\ alerted = FALSE
    /\ apiCalls = <<>>

----------------------------------------------------------------------------
(* App.js: the handlers *)

\* URL.createObjectURL(file): a fresh blob URL, the blobSeq+1-th of the page
\* (api.downloadImage, which also creates a blob URL, is called by no
\* component of the page)
createObjectURL == blobSeq + 1

\* handleContentUpload up to its await
handleContentUpload(file) ==
    /\ Len(uploadCalls) < MaxInFlightUploads
    /\ blobSeq + Len(uploadCalls) < MaxBlobs
    /\ error' = NoError
    /\ uploadCalls' = Append(uploadCalls, uploadImage("content", file))
    /\ UNCHANGED <<galleryVars, mixerVars, envApiUrl, apiCalls, contentImage, styleImage, resultImage,
                   isProcessing, processingProgress, styleIntensity, quality,
                   transferCalls, objectURLs, blobSeq>>

\* handleStyleUpload up to its await
handleStyleUpload(file) ==
    /\ Len(uploadCalls) < MaxInFlightUploads
    /\ blobSeq + Len(uploadCalls) < MaxBlobs
    /\ error' = NoError
    /\ uploadCalls' = Append(uploadCalls, uploadImage("style", file))
    /\ UNCHANGED <<galleryVars, mixerVars, envApiUrl, apiCalls, contentImage, styleImage, resultImage,
                   isProcessing, processingProgress, styleIntensity, quality,
                   transferCalls, objectURLs, blobSeq>>

\* the backend (or the network, or the timeout) settles upload call c
UploadResponds(i, r) ==
    /\ i \in DOMAIN uploadCalls
    /\ uploadCalls[i].resp = Pending
    /\ uploadCalls' = [uploadCalls EXCEPT ![i].resp = r]
    /\ UNCHANGED <<galleryVars, mixerVars, envApiUrl, apiCalls, appVars, transferCalls, objectURLs, blobSeq>>

\* the ImageRef an upload handler builds from a settled call
ImageRef(c) ==
    [filename |-> c.resp.data.filename,
     path     |-> c.resp.data.path,
     preview  |-> createObjectURL]

\* ContentUploadResumes with a catch that also empties the content slot
ContentUploadResumesClearing(i) ==
    /\ i \in DOMAIN uploadCalls
    /\ uploadCalls[i].role = "content"
    /\ uploadCalls[i].resp # Pending
    /\ uploadCalls' = Remove(uploadCalls, i)
    /\ LET c == uploadCalls[i] IN
       IF c.resp.status = "ok" /\ c.resp.data # Null
       THEN /\ contentImage' = ImageRef(c)
            /\ objectURLs' = objectURLs \cup {createObjectURL}
            /\ blobSeq' = blobSeq + 1
            /\ UNCHANGED error
       ELSE /\ error' = "Failed to upload content image: "
                            \o ErrMessage(c.resp, "filename")
            /\ contentImage' = Null
            /\ UNCHANGED <<objectURLs, blobSeq>>
    /\ UNCHANGED <<galleryVars, mixerVars, envApiUrl, apiCalls, styleImage, resultImage, isProcessing,
                   processingProgress, styleIntensity, quality,
                   transferCalls>>

\* handleContentUpload after its await: the try block's rest, or the catch
ContentUploadResumes(i) ==
    /\ i \in DOMAIN uploadCalls
    /\ uploadCalls[i].role = "content"
    /\ uploadCalls[i].resp # Pending
    /\ uploadCalls' = Remove(uploadCalls, i)
    /\ LET c == uploadCalls[i] IN
       IF c.resp.status = "ok" /\ c.resp.data # Null
       THEN /\ contentImage' = ImageRef(c)
            /\ objectURLs' = objectURLs \cup {createObjectURL}
            /\ blobSeq' = blobSeq + 1
            /\ UNCHANGED error
       ELSE /\ error' = "Failed to upload content image: "
                            \o ErrMessage(c.resp, "filename")
            /\ UNCHANGED <<contentImage, objectURLs, blobSeq>>
    /\ UNCHANGED <<galleryVars, mixerVars, envApiUrl, apiCalls, styleImage, resultImage, isProcessing,
                   processingProgress, styleIntensity, quality,
                   transferCalls>>

\* handleStyleUpload written as a copy of handleContentUpload that still
\* calls setContentImage
StyleUploadResumesIntoContent(i) ==
    /\ i \in DOMAIN uploadCalls
    /\ uploadCalls[i].role = "style"
    /\ uploadCalls[i].resp # Pending
    /\ uploadCalls' = Remove(uploadCalls, i)
    /\ LET c == uploadCalls[i] IN
       IF c.resp.status = "ok" /\ c.resp.data # Null
       THEN /\ contentImage' = ImageRef(c)
            /\ objectURLs' = objectURLs \cup {createObjectURL}
            /\ blobSeq' = blobSeq + 1
            /\ UNCHANGED error
       ELSE /\ error' = "Failed to upload style image: "
                            \o ErrMessage(c.resp, "filename")
            /\ UNCHANGED <<contentImage, objectURLs, blobSeq>>
    /\ UNCHANGED <<galleryVars, mixerVars, envApiUrl, apiCalls, styleImage, resultImage, isProcessing,
                   processingProgress, styleIntensity, quality,
                   transferCalls>>

\* handleStyleUpload after its await
StyleUploadResumes(i) ==
    /\ i \in DOMAIN uploadCalls
    /\ uploadCalls[i].role = "style"
    /\ uploadCalls[i].resp # Pending
    /\ uploadCalls' = Remove(uploadCalls, i)
    /\ LET c == uploadCalls[i] IN
       IF c.resp.status = "ok" /\ c.resp.data # Null
       THEN /\ styleImage' = ImageRef(c)
            /\ objectURLs' = objectURLs \cup {createObjectURL}
            /\ blobSeq' = blobSeq + 1
            /\ UNCHANGED error
       ELSE /\ error' = "Failed to upload style image: "
                            \o ErrMessage(c.resp, "filename")
            /\ UNCHANGED <<styleImage, objectURLs, blobSeq>>
    /\ UNCHANGED <<galleryVars, mixerVars, envApiUrl, apiCalls, contentImage, resultImage, isProcessing,
                   processingProgress, styleIntensity, quality,
                   transferCalls>>

\* the body of the standard transfer, posted in quick mode too
TransferBodyWithQuality(quickMode) ==
    [content_image |-> contentImage.path,
     style_image   |-> styleImage.path,
     intensity     |-> styleIntensity,
     quality       |-> quality]

\* the body handleStyleTransfer posts
TransferBody(quickMode) ==
    IF quickMode
    THEN [content_image |-> contentImage.path,
          style_image   |-> styleImage.path,
          intensity     |-> styleIntensity]
    ELSE [content_image |-> contentImage.path,
          style_image   |-> styleImage.path,
          intensity     |-> styleIntensity,
          quality       |-> quality]

\* StartTransfer taking the last result off the canvas as it starts
StartTransferClearsResult(quickMode) ==
    /\ Len(transferCalls) < MaxInFlightTransfers
    /\ isProcessing' = TRUE
    /\ error' = NoError
    /\ processingProgress' = 0
    /\ resultImage' = Null
    /\ transferCalls' = Append(transferCalls,
           IF quickMode
           THEN quickTransfer(TransferBody(quickMode))
           ELSE styleTransfer(TransferBody(quickMode)))
    /\ UNCHANGED <<galleryVars, mixerVars, envApiUrl, apiCalls, contentImage, styleImage,
                   styleIntensity, quality, uploadCalls, objectURLs, blobSeq>>

\* handleStyleTransfer's try block up to its await
StartTransfer(quickMode) ==
    /\ Len(transferCalls) < MaxInFlightTransfers
    /\ isProcessing' = TRUE
    /\ error' = NoError
    /\ processingProgress' = 0
    /\ transferCalls' = Append(transferCalls,
           IF quickMode
           THEN quickTransfer(TransferBody(quickMode))
           ELSE styleTransfer(TransferBody(quickMode)))
    /\ UNCHANGED <<galleryVars, mixerVars, envApiUrl, apiCalls, contentImage, styleImage, resultImage,
                   styleIntensity, quality, uploadCalls, objectURLs, blobSeq>>

\* handleStyleTransfer returning without a word when an image is missing
handleStyleTransferSilent(quickMode) ==
    IF contentImage = Null \/ styleImage = Null
    THEN UNCHANGED vars
    ELSE StartTransfer(quickMode)

\* handleStyleTransfer up to its await
handleStyleTransfer(quickMode) ==
    IF contentImage = Null \/ styleImage = Null
    THEN /\ error' = "Please upload both content and style images"
         /\ UNCHANGED <<galleryVars, mixerVars, envApiUrl, apiCalls, contentImage, styleImage, resultImage,
                        isProcessing, processingProgress, styleIntensity,
                        quality, uploadCalls, transferCalls, objectURLs,
                        blobSeq>>
    ELSE StartTransfer(quickMode)

\* the backend (or the network, or the timeout) settles transfer call c
TransferResponds(i, r) ==
    /\ i \in DOMAIN transferCalls
    /\ transferCalls[i].resp = Pending
    /\ transferCalls' = [transferCalls EXCEPT ![i].resp = r]
    /\ UNCHANGED <<galleryVars, mixerVars, envApiUrl, apiCalls, appVars, uploadCalls, objectURLs, blobSeq>>

\* the TransferResult handleStyleTransfer stores for a successful response
TransferResult(r) ==
    [filename       |-> r.data.output_image,
     url            |-> getImageUrl(r.data.output_image),
     processingTime |-> r.data.processing_time]

\* handleStyleTransfer after its await, for response r: the try block's
\* rest, or the catch
TransferOutcome(r) ==
    IF r.status = "ok"
    THEN IF r.success
         THEN IF r.data # Null
              THEN /\ resultImage' = TransferResult(r)
                   /\ processingProgress' = 100
                   /\ UNCHANGED error
              ELSE /\ error' = "Style transfer failed: "
                                   \o ErrMessage(r, "output_image")
                   /\ UNCHANGED <<resultImage, processingProgress>>
         ELSE UNCHANGED <<resultImage, processingProgress, error>>
    ELSE /\ error' = "Style transfer failed: " \o ErrMessage(r, "output_image")
         /\ UNCHANGED <<resultImage, processingProgress>>

\* StyleTransferResumes with setIsProcessing(false) at the end of the try
\* block instead of in a finally
StyleTransferResumesNoFinally(i) ==
    /\ i \in DOMAIN transferCalls
    /\ transferCalls[i].resp # Pending
    /\ transferCalls' = Remove(transferCalls, i)
    /\ TransferOutcome(transferCalls[i].resp)
    /\ isProcessing' = IF error' = error THEN FALSE ELSE isProcessing
    /\ UNCHANGED <<galleryVars, mixerVars, envApiUrl, apiCalls, contentImage, styleImage, styleIntensity,
                   quality, uploadCalls, objectURLs, blobSeq>>

\* StyleTransferResumes with setIsProcessing(false) only where the
\* response is handled: after a result is stored, and in the catch
StyleTransferResumesBusyOnRefusal(i) ==
    /\ i \in DOMAIN transferCalls
    /\ transferCalls[i].resp # Pending
    /\ transferCalls' = Remove(transferCalls, i)
    /\ TransferOutcome(transferCalls[i].resp)
    /\ isProcessing' =
          IF transferCalls[i].resp.status = "ok"
             /\ ~transferCalls[i].resp.success
          THEN isProcessing
          ELSE FALSE
    /\ UNCHANGED <<galleryVars, mixerVars, envApiUrl, apiCalls, contentImage,
                   styleImage, styleIntensity,
                   quality, uploadCalls, objectURLs, blobSeq>>

\* handleStyleTransfer after its await: the try block's rest or the catch,
\* and the finally
StyleTransferResumes(i) ==
    /\ i \in DOMAIN transferCalls
    /\ transferCalls[i].resp # Pending
    /\ transferCalls' = Remove(transferCalls, i)
    /\ TransferOutcome(transferCalls[i].resp)
    /\ isProcessing' = FALSE
    /\ UNCHANGED <<galleryVars, mixerVars, envApiUrl, apiCalls, contentImage, styleImage, styleIntensity,
                   quality, uploadCalls, objectURLs, blobSeq>>

\* handleReset leaving the last result on the canvas
handleResetKeepsResult ==
    /\ contentImage' = Null
    /\ styleImage' = Null
    /\ error' = NoError
    /\ processingProgress' = 0
    /\ UNCHANGED <<galleryVars, mixerVars, envApiUrl, apiCalls, resultImage, isProcessing, styleIntensity,
                   quality, uploadCalls, transferCalls, objectURLs, blobSeq>>

handleReset ==
    /\ contentImage' = Null
    /\ styleImage' = Null
    /\ resultImage' = Null
    /\ error' = NoError
    /\ processingProgress' = 0
    /\ UNCHANGED <<galleryVars, mixerVars, envApiUrl, apiCalls, isProcessing, styleIntensity, quality,
                   uploadCalls, transferCalls, objectURLs, blobSeq>>

setStyleIntensity(v) ==
    /\ styleIntensity' = v
    /\ UNCHANGED <<galleryVars, mixerVars, envApiUrl, apiCalls, contentImage, styleImage, resultImage,
                   isProcessing, processingProgress, quality, error,
                   uploadCalls, transferCalls, objectURLs, blobSeq>>

setQuality(q) ==
    /\ quality' = q
    /\ UNCHANGED <<galleryVars, mixerVars, envApiUrl, apiCalls, contentImage, styleImage, resultImage,
                   isProcessing, processingProgress, styleIntensity, error,
                   uploadCalls, transferCalls, objectURLs, blobSeq>>

----------------------------------------------------------------------------
(* App.js, ImageCanvas.jsx, ImageUploader.jsx: what the rendered page lets *)
(* the user do                                                             *)

\* disabled of both ImageUploaders
UploaderDisabled == isProcessing

\* the transfer buttons left enabled while a transfer runs
TransferDisabledNoBusy == contentImage = Null \/ styleImage = Null

\* disabled of the Apply Style Transfer and the Quick Transfer button
TransferDisabled == contentImage = Null \/ styleImage = Null \/ isProcessing

\* disabled of the intensity slider and of the quality select
SettingsDisabled == isProcessing

\* Reset All left enabled while a transfer runs
ResetAllEnabledWhileBusy ==
    contentImage # Null \/ styleImage # Null \/ resultImage # Null

\* the Reset All button is rendered and enabled
ResetAllEnabled ==
    /\ contentImage # Null \/ styleImage # Null \/ resultImage # Null
    /\ ~isProcessing

\* the canvas's New button is rendered
CanvasNewShown == resultImage # Null /\ ~isProcessing

\* ImageUploader.onDrop of the content uploader
DropContent(file) == ~UploaderDisabled /\ handleContentUpload(file)

\* ImageUploader.onDrop of the style uploader
DropStyle(file) == ~UploaderDisabled /\ handleStyleUpload(file)

\* a click on one of the two transfer buttons
ClickTransfer(quickMode) == ~TransferDisabled /\ handleStyleTransfer(quickMode)

\* a click on Reset All, or on the canvas's New
ClickReset == (ResetAllEnabled \/ CanvasNewShown) /\ handleReset

\* the intensity slider moves
SlideIntensity(v) ==
    /\ ~SettingsDisabled
    /\ setStyleIntensity(RangeValue(v, IntensityMin, IntensityMax))

\* the quality select changes
SelectQuality(q) == ~SettingsDisabled /\ setQuality(q)

----------------------------------------------------------------------------
(* StyleMixer.jsx.  The entries' weights are JavaScript numbers; what a     *)
(* slider yields is the string of a number with one decimal, kept in tenths.*)

RECURSIVE reduce(_, _)
\* list.reduce((sum, s) => sum + s.weight, sum)
reduce(list, sum) ==
    IF list = <<>>
    THEN sum
    ELSE reduce(Tail(list), NumberAdd(sum, list[1].weight))

\* styles.reduce((sum, s) => sum + s.weight, 0)
SumWeights(list) == reduce(list, Zero(FALSE))

\* styles.filter(s => s.id !== id)
FilterOut(list, id) == SelectSeq(list, LAMBDA s : s.id # id)

\* addStyle appending a fifth entry too
addStyleUpToFive ==
    /\ styles' =
          IF Len(styles) <= MaxStyles
          THEN Append(styles,
                      [id     |-> dateNow,
                       weight |-> parseFloat(5),
                       name   |-> "Style " \o ToString(Len(styles) + 1)])
          ELSE styles
    /\ mixed' = <<>>
    /\ UNCHANGED <<dateNow, studioVars, galleryVars>>

addStyle ==
    /\ styles' =
          IF Len(styles) < MaxStyles
          THEN Append(styles,
                      [id     |-> dateNow,
                       weight |-> parseFloat(5),
                       name   |-> "Style " \o ToString(Len(styles) + 1)])
          ELSE styles
    /\ mixed' = <<>>
    /\ UNCHANGED <<dateNow, studioVars, galleryVars>>

removeStyle(id) ==
    /\ styles' = IF Len(styles) > 1 THEN FilterOut(styles, id) ELSE styles
    /\ mixed' = <<>>
    /\ UNCHANGED <<dateNow, studioVars, galleryVars>>

\* updateWeight for the string weight, given as the tenths it denotes
updateWeight(id, weight) ==
    /\ styles' = [i \in DOMAIN styles |->
                    IF styles[i].id = id
                    THEN [styles[i] EXCEPT !.weight = parseFloat(weight)]
                    ELSE styles[i]]
    /\ mixed' = <<>>
    /\ UNCHANGED <<dateNow, studioVars, galleryVars>>

\* normalizeWeights dividing by the largest weight
normalizeWeightsByMax ==
    LET top == CHOOSE w \in {styles[i].weight : i \in DOMAIN styles} :
                  \A i \in DOMAIN styles : NumberLeq(styles[i].weight, w)
    IN [i \in DOMAIN styles |->
          [styles[i] EXCEPT !.weight = NumberDiv(styles[i].weight, top)]]

normalizeWeights ==
    LET total == SumWeights(styles)
    IN [i \in DOMAIN styles |->
          [styles[i] EXCEPT !.weight = NumberDiv(styles[i].weight, total)]]

\* handleMix that also stores the weights rescaled to sum to 1.0
handleMixRescaling ==
    /\ mixed' = <<normalizeWeights>>
    /\ styles' = normalizeWeights
    /\ UNCHANGED <<dateNow, studioVars, galleryVars>>

handleMix ==
    /\ mixed' = <<normalizeWeights>>
    /\ UNCHANGED <<styles, dateNow, studioVars, galleryVars>>

\* a weight slider without min and max
SlideWeightUnbounded(i, v) ==
    /\ i \in DOMAIN styles
    /\ updateWeight(styles[i].id, v)

\* the weight slider of the i-th entry moves
SlideWeight(i, v) ==
    /\ i \in DOMAIN styles
    /\ updateWeight(styles[i].id, RangeValue(v, WeightMin, WeightMax))

\* a millisecond passes
Tick ==
    /\ dateNow < MaxNow
    /\ dateNow' = dateNow + 1
    /\ mixed' = <<>>
    /\ UNCHANGED <<styles, studioVars, galleryVars>>

----------------------------------------------------------------------------
(* Gallery.jsx, and the App's Show Gallery switch.  A call in flight keeps  *)
(* what its handler closed over: whether its component instance is still    *)
(* mounted (React drops the state updates of an unmounted one) and, for     *)
(* handleDelete, the images of the render the click was made in.            *)

getGallery == [url |-> "/api/gallery", mounted |-> TRUE, resp |-> Pending]

deleteFromGallery(filename) ==
    [url |-> "/api/gallery/" \o filename, filename |-> filename,
     images |-> images, mounted |-> TRUE, resp |-> Pending]

\* the entries the backend lists for its gallery
Listing ==
    LET kept == SelectSeq(GalleryFiles, LAMBDA f : f \in galleryStore)
    IN [k \in DOMAIN kept |-> [filename |-> kept[k]]]

\* what axios settles a getGallery call with
GalleryResponses ==
    { [status |-> "ok", success |-> TRUE, images |-> Listing],
      [status |-> "ok", success |-> FALSE, images |-> <<>>],
      [status |-> "error", message |-> "Network Error", images |-> <<>>] }

\* what axios settles a deleteFromGallery call with
DeleteResponses ==
    { [status |-> "ok"],
      [status |-> "error", message |-> "Request failed with status code 404"] }

\* the calls of a component instance that has just unmounted
Unmounted(calls) == [k \in DOMAIN calls |-> [calls[k] EXCEPT !.mounted = FALSE]]

\* Show Gallery: the Gallery mounts and its effect runs fetchGallery up to
\* its await
OpenGallery ==
    /\ ~showGallery
    /\ Len(galleryCalls) < MaxInFlightFetches
    /\ showGallery' = TRUE
    /\ images' = <<>>
    /\ loading' = TRUE
    /\ selectedImage' = Null
    /\ galleryCalls' = Append(galleryCalls, getGallery)
    /\ alerted' = FALSE
    /\ UNCHANGED <<deleteCalls, galleryStore, studioVars, mixerVars>>

\* Hide Gallery, or the Gallery's close button: the Gallery unmounts
CloseGallery ==
    /\ showGallery
    /\ showGallery' = FALSE
    /\ images' = <<>>
    /\ loading' = TRUE
    /\ selectedImage' = Null
    /\ galleryCalls' = Unmounted(galleryCalls)
    /\ deleteCalls' = Unmounted(deleteCalls)
    /\ alerted' = FALSE
    /\ UNCHANGED <<galleryStore, studioVars, mixerVars>>

\* the backend (or the network) settles getGallery call i
GalleryResponds(i, r) ==
    /\ i \in DOMAIN galleryCalls
    /\ galleryCalls[i].resp = Pending
    /\ galleryCalls' = [galleryCalls EXCEPT ![i].resp = r]
    /\ alerted' = FALSE
    /\ UNCHANGED <<showGallery, images, loading, selectedImage, deleteCalls,
                   galleryStore, studioVars, mixerVars>>

\* fetchGallery after its await: the try block's rest or the catch, and the
\* finally
FetchGalleryResumes(i) ==
    /\ i \in DOMAIN galleryCalls
    /\ galleryCalls[i].resp # Pending
    /\ galleryCalls' = Remove(galleryCalls, i)
    /\ LET c == galleryCalls[i] IN
       IF c.mounted
       THEN /\ images' = IF c.resp.status = "ok" /\ c.resp.success
                         THEN c.resp.images
                         ELSE images
            /\ loading' = FALSE
       ELSE UNCHANGED <<images, loading>>
    /\ alerted' = FALSE
    /\ UNCHANGED <<showGallery, selectedImage, deleteCalls, galleryStore,
                   studioVars, mixerVars>>

setSelectedImage(image) ==
    /\ selectedImage' = image
    /\ alerted' = FALSE
    /\ UNCHANGED <<showGallery, images, loading, galleryCalls, deleteCalls,
                   galleryStore, studioVars, mixerVars>>

\* handleDelete up to its await; confirmed is the user's answer to
\* window.confirm
handleDelete(filename, confirmed) ==
    /\ IF confirmed
       THEN /\ Len(deleteCalls) < MaxInFlightDeletes
            /\ deleteCalls' = Append(deleteCalls, deleteFromGallery(filename))
       ELSE UNCHANGED deleteCalls
    /\ alerted' = FALSE
    /\ UNCHANGED <<showGallery, images, loading, selectedImage, galleryCalls,
                   galleryStore, studioVars, mixerVars>>

\* the backend (or the network) settles deleteFromGallery call i; a 2xx
\* answer means the backend has removed the file
DeleteResponds(i, r) ==
    /\ i \in DOMAIN deleteCalls
    /\ deleteCalls[i].resp = Pending
    /\ deleteCalls' = [deleteCalls EXCEPT ![i].resp = r]
    /\ galleryStore' = IF r.status = "ok"
                       THEN galleryStore \ {deleteCalls[i].filename}
                       ELSE galleryStore
    /\ alerted' = FALSE
    /\ UNCHANGED <<showGallery, images, loading, selectedImage, galleryCalls,
                   studioVars, mixerVars>>

\* handleDelete's continuation evicting the entry before it knows that the
\* delete succeeded
DeleteResumesEvictingAnyway(i) ==
    /\ i \in DOMAIN deleteCalls
    /\ deleteCalls[i].resp # Pending
    /\ deleteCalls' = Remove(deleteCalls, i)
    /\ LET c == deleteCalls[i] IN
       /\ IF c.mounted
          THEN /\ images' = SelectSeq(c.images,
                               LAMBDA img : img.filename # c.filename)
               /\ selectedImage' = Null
          ELSE UNCHANGED <<images, selectedImage>>
       /\ alerted' = (c.resp.status # "ok")
    /\ UNCHANGED <<showGallery, loading, galleryCalls, galleryStore,
                   studioVars, mixerVars>>

\* handleDelete after its await: the try block's rest, or the catch
DeleteResumes(i) ==
    /\ i \in DOMAIN deleteCalls
    /\ deleteCalls[i].resp # Pending
    /\ deleteCalls' = Remove(deleteCalls, i)
    /\ LET c == deleteCalls[i] IN
       IF c.resp.status = "ok"
       THEN /\ IF c.mounted
               THEN /\ images' = SelectSeq(c.images,
                                    LAMBDA img : img.filename # c.filename)
                    /\ selectedImage' = Null
               ELSE UNCHANGED <<images, selectedImage>>
            /\ alerted' = FALSE
       ELSE /\ alerted' = TRUE
            /\ UNCHANGED <<images, selectedImage>>
    /\ UNCHANGED <<showGallery, loading, galleryCalls, galleryStore,
                   studioVars, mixerVars>>

\* the grid is rendered
GridShown == showGallery /\ ~loading /\ images # <<>>

\* a click on the k-th item of the grid
ClickItem(k) ==
    /\ GridShown
    /\ k \in DOMAIN images
    /\ setSelectedImage(images[k])

\* a click on the trash button of the k-th item of the grid
ClickItemDelete(k, confirmed) ==
    /\ GridShown
    /\ k \in DOMAIN images
    /\ handleDelete(images[k].filename, confirmed)

\* a click on the preview's close button or beside the preview
ClosePreview ==
    /\ showGallery
    /\ selectedImage # Null
    /\ setSelectedImage(Null)

\* a click on the preview's Delete button
ClickPreviewDelete(confirmed) ==
    /\ showGallery
    /\ selectedImage # Null
    /\ handleDelete(selectedImage.filename, confirmed)

----------------------------------------------------------------------------
(* Specifications *)

\* what the network and the handlers' continuations do
Settle ==
    \/ \E i \in DOMAIN uploadCalls :
          \E r \in UploadResponses(uploadCalls[i]) : UploadResponds(i, r)
    \/ \E i \in DOMAIN uploadCalls : ContentUploadResumes(i)
    \/ \E i \in DOMAIN uploadCalls : StyleUploadResumes(i)
    \/ \E i \in DOMAIN transferCalls :
          \E r \in TransferResponses(transferCalls[i]) : TransferResponds(i, r)
    \/ \E i \in DOMAIN transferCalls : StyleTransferResumes(i)

\* the page as the user drives it
Next ==
    \/ \E f \in Files : DropContent(f)
    \/ \E f \in Files : DropStyle(f)
    \/ \E m \in BOOLEAN : ClickTransfer(m)
    \/ ClickReset
    \/ \E v \in IntensityInputs : SlideIntensity(v)
    \/ \E q \in QualityInputs : SelectQuality(q)
    \/ Settle

Spec == Init /\ [][Next]_vars

\* the api functions that no component of the page calls: each returns the
\* promise of its request
generateVariations(data) ==
    [fn |-> "generateVariations", url |-> "/api/variations", data |-> data,
     resp |-> Pending]

cleanupGallery(maxAgeHours) ==
    [fn |-> "cleanupGallery", url |-> "/api/gallery/cleanup",
     data |-> [max_age_hours |-> maxAgeHours], resp |-> Pending]

getGalleryInfo ==
    [fn |-> "getGalleryInfo", url |-> "/api/gallery/info", data |-> Null,
     resp |-> Pending]

\* the GET of downloadImage, asking for a blob
downloadRequest(filename) ==
    [fn |-> "downloadImage", url |-> "/api/image/" \o filename,
     data |-> [responseType |-> "blob"], resp |-> Pending]

\* the calls made of these functions: variations of an uploaded image, a
\* cleanup with the default age, the gallery's statistics
ApiRequests ==
    {generateVariations([image |-> "uploads/u_cat.png", num_variations |-> 2]),
     cleanupGallery(24),
     getGalleryInfo}

\* one of these functions is called from outside the page
CallApi(c) ==
    /\ Len(apiCalls) < MaxInFlightApiCalls
    /\ apiCalls' = Append(apiCalls, c)
    /\ UNCHANGED <<envApiUrl, appVars, uploadCalls, transferCalls,
                   objectURLs, blobSeq, mixerVars, galleryVars>>

\* api.downloadImage(filename) up to its await
downloadImage(filename) ==
    /\ blobSeq + Len(uploadCalls) + Len(apiCalls) < MaxBlobs
    /\ CallApi(downloadRequest(filename))

\* the i-th of these calls is answered, with a 2xx status or not.  The
\* promise of a plain request is settled with the answer; a cleanup that
\* succeeded has deleted the files in removed from the backend's gallery.
ApiResponds(i, ok, removed) ==
    /\ i \in DOMAIN apiCalls
    /\ apiCalls[i].resp = Pending
    /\ removed \subseteq galleryStore
    /\ (apiCalls[i].fn # "cleanupGallery" \/ ~ok) => removed = {}
    /\ apiCalls' =
          IF apiCalls[i].fn = "downloadImage"
          THEN [apiCalls EXCEPT ![i].resp =
                   [status |-> IF ok THEN "ok" ELSE "error"]]
          ELSE Remove(apiCalls, i)
    /\ galleryStore' = galleryStore \ removed
    /\ UNCHANGED <<envApiUrl, appVars, uploadCalls, transferCalls,
                   objectURLs, blobSeq, mixerVars, showGallery, images,
                   loading, selectedImage, galleryCalls, deleteCalls,
                   alerted>>

\* api.downloadImage from its await on: with the blob a URL is created, an
\* anchor with that href is clicked and the URL is revoked; a failure is
\* logged and thrown again
downloadImageResumes(i) ==
    /\ i \in DOMAIN apiCalls
    /\ apiCalls[i].fn = "downloadImage"
    /\ apiCalls[i].resp # Pending
    /\ apiCalls' = Remove(apiCalls, i)
    /\ IF apiCalls[i].resp.status = "ok"
       THEN /\ blobSeq' = blobSeq + 1
            /\ objectURLs' =
                  (objectURLs \cup {createObjectURL}) \ {createObjectURL}
       ELSE UNCHANGED <<blobSeq, objectURLs>>
    /\ UNCHANGED <<envApiUrl, appVars, uploadCalls, transferCalls,
                   mixerVars, galleryVars>>

\* the page, and the api functions no component calls, called from outside
\* it
NextApi ==
    \/ Next
    \/ \E c \in ApiRequests : CallApi(c)
    \/ \E k \in DOMAIN GalleryFiles : downloadImage(GalleryFiles[k])
    \/ \E i \in DOMAIN apiCalls : \E ok \in BOOLEAN :
          \E removed \in SUBSET galleryStore : ApiResponds(i, ok, removed)
    \/ \E i \in DOMAIN apiCalls : downloadImageResumes(i)

SpecApi == Init /\ [][NextApi]_vars

\* handleStyleTransfer called while an ImageRef is missing: the call the
\* disabled buttons never make
SubmitWithoutImages(quickMode) ==
    /\ contentImage = Null \/ styleImage = Null
    /\ handleStyleTransfer(quickMode)

\* the page, and submits made past the disabled buttons
NextDirect ==
    \/ Next
    \/ \E m \in BOOLEAN : SubmitWithoutImages(m)

SpecDirect == Init /\ [][NextDirect]_vars


\* the StyleMixer component as its parent drives it: the handlers behind
\* Add Style, the entries' remove buttons and Mix Styles, the weight
\* sliders, and the clock
NextMixer ==
    \/ addStyle
    \/ \E i \in DOMAIN styles : removeStyle(styles[i].id)
    \/ \E i \in DOMAIN styles : \E v \in WeightInputs : SlideWeight(i, v)
    \/ handleMix
    \/ Tick

SpecMixer == Init /\ [][NextMixer]_vars

\* the lists of entries normalizeWeights is applied to: one to MaxStyles
\* entries, the first the initial one and the others added a millisecond
\* apart, every weight on the slider's grid
MixerLists ==
    UNION { { [i \in 1..n |-> [id     |-> i,
                               weight |-> parseFloat(ws[i]),
                               name   |-> "Style " \o ToString(i)]] :
                ws \in [1..n -> WeightMin..WeightMax] } :
            n \in 1..MaxStyles }

InitNormalize ==
    /\ envApiUrl = ""
    /\ contentImage = Null
    /\ styleImage = Null
    /\ resultImage = Null
    /\ isProcessing = FALSE
    /\ processingProgress = 0
    /\ styleIntensity = 10
    /\ quality = "standard"
    /\ error = NoError
    /\ uploadCalls = <<>>
    /\ transferCalls = <<>>
    /\ objectURLs = {}
    /\ blobSeq = 0
    /\ styles \in MixerLists
    /\ dateNow = MaxNow
    /\ mixed = <<>>
    /\ showGallery = FALSE
    /\ images = <<>>
    /\ loading = TRUE
    /\ selectedImage = Null
    /\ galleryCalls = <<>>
    /\ deleteCalls = <<>>
    /\ galleryStore = {GalleryFiles[k] : k \in DOMAIN GalleryFiles}
    /\ alerted = FALSE
    /\ apiCalls = <<>>

\* normalizeWeights applied, by Mix Styles, to every list of MixerLists
SpecNormalize == InitNormalize /\ [][handleMix]_vars

\* the gallery as the user drives it, with what the network and the
\* handlers' continuations do
NextGallery ==
    \/ OpenGallery
    \/ CloseGallery
    \/ \E i \in DOMAIN galleryCalls :
          \E r \in GalleryResponses : GalleryResponds(i, r)
    \/ \E i \in DOMAIN galleryCalls : FetchGalleryResumes(i)
    \/ \E k \in DOMAIN images : ClickItem(k)
    \/ \E k \in DOMAIN images : \E ok \in BOOLEAN : ClickItemDelete(k, ok)
    \/ ClosePreview
    \/ \E ok \in BOOLEAN : ClickPreviewDelete(ok)
    \/ \E i \in DOMAIN deleteCalls :
          \E r \in DeleteResponses : DeleteResponds(i, r)
    \/ \E i \in DOMAIN deleteCalls : DeleteResumes(i)

SpecGallery == Init /\ [][NextGallery]_vars

\* every transfer request in flight is eventually settled, by an answer,
\* an error or its timeout
TransferSettles ==
    \E i \in DOMAIN transferCalls :
       \E r \in TransferResponses(transferCalls[i]) : TransferResponds(i, r)

\* the event loop eventually runs the continuation of a settled await
TransferContinues == \E i \in DOMAIN transferCalls : StyleTransferResumes(i)

\* the page, with every transfer request settled and every settled await
\* continued
SpecLive == Spec /\ WF_vars(TransferSettles) /\ WF_vars(TransferContinues)

\* no slot holds anything although an ImageRef has been built: a reset has
\* emptied the slots, and nothing has filled one since
EmptiedByReset ==
    /\ contentImage = Null
    /\ styleImage = Null
    /\ resultImage = Null
    /\ blobSeq > 0

\* the page with a user who, once a reset has emptied it, starts no upload
NextNoUploadAfterReset ==
    \/ \E f \in Files : ~EmptiedByReset /\ DropContent(f)
    \/ \E f \in Files : ~EmptiedByReset /\ DropStyle(f)
    \/ \E m \in BOOLEAN : ClickTransfer(m)
    \/ ClickReset
    \/ \E v \in IntensityInputs : SlideIntensity(v)
    \/ \E q \in QualityInputs : SelectQuality(q)
    \/ Settle

SpecNoUploadAfterReset == Init /\ [][NextNoUploadAfterReset]_vars

\* the ImageRef slot of an upload role
Slot(role) == IF role = "content" THEN contentImage ELSE styleImage

\* an upload of the file for the role is in flight
InFlight(role, file) ==
    \E i \in DOMAIN uploadCalls :
       uploadCalls[i].role = role /\ uploadCalls[i].file = file

\* the file a user selects first for a role, and the file selected after it
\* while the first one's upload is still in flight
FirstFile == "cat.png"

SecondFile == "vangogh.png"

\* the user drops the first file on the uploader of an empty role that has
\* no upload in flight
DropFirst(role) ==
    /\ Slot(role) = Null
    /\ \A f \in Files : ~InFlight(role, f)
    /\ IF role = "content" THEN DropContent(FirstFile)
                           ELSE DropStyle(FirstFile)

\* the user drops the second file on the same uploader while the upload of
\* the first is in flight and nothing has filled the slot
DropSecond(role) ==
    /\ Slot(role) = Null
    /\ InFlight(role, FirstFile)
    /\ ~InFlight(role, SecondFile)
    /\ IF role = "content" THEN DropContent(SecondFile)
                           ELSE DropStyle(SecondFile)

\* the uploaders alone, with a user who selects a second file for a role
\* only on top of the upload of a first one
NextOverlappingUploads ==
    \/ \E role \in {"content", "style"} : DropFirst(role)
    \/ \E role \in {"content", "style"} : DropSecond(role)
    \/ \E i \in DOMAIN uploadCalls :
          \E r \in UploadResponses(uploadCalls[i]) : UploadResponds(i, r)
    \/ \E i \in DOMAIN uploadCalls : ContentUploadResumes(i)
    \/ \E i \in DOMAIN uploadCalls : StyleUploadResumes(i)

SpecOverlappingUploads == Init /\ [][NextOverlappingUploads]_vars

----------------------------------------------------------------------------
(* Properties of the transfer workflow *)

\* the message of the submit precondition
BothImagesRequired == "Please upload both content and style images"

\* an ImageRef slot is empty
ImageMissing == contentImage = Null \/ styleImage = Null

\* this step appends a transfer call
IssuesTransfer == Len(transferCalls') > Len(transferCalls)

\* this step is handleStyleTransfer resuming for the i-th transfer call
Resumes(i) ==
    /\ i \in DOMAIN transferCalls
    /\ transferCalls[i].resp # Pending
    /\ transferCalls' = Remove(transferCalls, i)

\* C1: a submit, quick or standard, made while the content or the style
\* ImageRef is missing surfaces the 'both images required' error, issues no
\* transfer request, does not enter Processing and leaves the ImageRefs and
\* the result as they are; while an ImageRef is missing no step at all
\* issues a transfer request or enters Processing.
C1_SubmitWithoutImagesRejected ==
    /\ [](ImageMissing =>
            \A m \in BOOLEAN :
               ENABLED (/\ SubmitWithoutImages(m)
                        /\ error' = BothImagesRequired
                        /\ UNCHANGED <<contentImage, styleImage, resultImage,
                                       isProcessing, transferCalls>>))
    /\ [][ /\ \A m \in BOOLEAN :
                SubmitWithoutImages(m) =>
                   /\ error' = BothImagesRequired
                   /\ UNCHANGED <<contentImage, styleImage, resultImage,
                                  isProcessing, transferCalls>>
           /\ ImageMissing =>
                ~IssuesTransfer /\ (isProcessing' => isProcessing)
         ]_vars

\* C1 witness: the error is shown with the content slot still empty, the
\* style slot filled and an upload in flight, and nothing was submitted
C1_Witness ==
    /\ error = BothImagesRequired
    /\ contentImage = Null
    /\ styleImage # Null
    /\ Len(uploadCalls) > 0
    /\ transferCalls = <<>>
    /\ ~isProcessing

\* C2: at most one transfer request is in flight at any time, and while a
\* submission is Processing no step issues a second one.
C2_SingleSubmissionInFlight ==
    /\ [](Len(transferCalls) <= 1)
    /\ [][isProcessing => ~IssuesTransfer]_vars

\* C2 witness: a submission is Processing with its one request in flight,
\* both images in place, so that only isProcessing keeps the buttons off
C2_Witness ==
    /\ isProcessing
    /\ Len(transferCalls) = 1
    /\ transferCalls[1].resp = Pending
    /\ ~ImageMissing

\* C3: Processing implies a transfer request in flight and both ImageRefs
\* present.
C3_ProcessingHasRequestAndImages ==
    isProcessing =>
        /\ Len(transferCalls) >= 1
        /\ contentImage # Null
        /\ styleImage # Null

\* C3 witness: Processing while an upload started before the submit has
\* been answered and its handler is about to resume
C3_Witness ==
    /\ isProcessing
    /\ Len(uploadCalls) > 0
    /\ uploadCalls[1].resp # Pending

\* the response carries success:true and the transfer's data
SuccessResp(r) == r.status = "ok" /\ r.success /\ r.data # Null

\* the response is a 2xx whose payload says success:false
RefusedResp(r) == r.status = "ok" /\ ~r.success

\* the request failed: no response, a non-2xx status, or the timeout
FailureResp(r) == r.status = "error"

\* err.message of the failures a transfer call can end with
TransferErrMessages ==
    {"Network Error", "Request failed with status code 500",
     "timeout of 600000ms exceeded", "timeout of 300000ms exceeded",
     "Cannot read properties of undefined (reading 'output_image')"}

\* e is the message of a failed transfer
IsTransferFailure(e) ==
    \E m \in TransferErrMessages : e = "Style transfer failed: " \o m

\* this step stores a result (the workflow becomes Succeeded)
StoresResult ==
    /\ processingProgress # 100
    /\ processingProgress' = 100
    /\ resultImage' # Null

\* this step reports a transfer failure (the workflow becomes Failed)
ReportsFailure == error' # error /\ IsTransferFailure(error')

\* C4: a submission ends, from Processing, as exactly one of Succeeded and
\* Failed, and a result is stored or a transfer failure reported only from
\* Processing.
C4_SubmitEndsSucceededOrFailed ==
    [][ /\ \A i \in DOMAIN transferCalls :
             Resumes(i) =>
                /\ isProcessing
                /\ ~isProcessing'
                /\ StoresResult # ReportsFailure
        /\ (StoresResult \/ ReportsFailure) => isProcessing
      ]_vars

\* C5: a success:true answer with output_image f makes the workflow
\* Succeeded with the result {f, base URL + '/api/image/' + f, the returned
\* processing_time}.
C5_SuccessStoresResult ==
    [][ \A i \in DOMAIN transferCalls :
           Resumes(i) /\ SuccessResp(transferCalls[i].resp) =>
              LET d == transferCalls[i].resp.data IN
              /\ resultImage' =
                    [filename       |-> d.output_image,
                     url            |-> API_BASE_URL \o "/api/image/"
                                           \o d.output_image,
                     processingTime |-> d.processing_time]
              /\ processingProgress' = 100
              /\ ~isProcessing'
      ]_vars

\* C5 witness: the spec's scenario, result_001.png in 12.3s from the default
\* backend, shown after Processing ended
C5_Witness ==
    /\ resultImage =
          [filename       |-> "result_001.png",
           url            |-> "http://localhost:5000/api/image/result_001.png",
           processingTime |-> "12.3s"]
    /\ processingProgress = 100
    /\ ~isProcessing
    /\ transferCalls = <<>>

\* C6: a 2xx answer whose payload says success:false leaves the workflow
\* Failed with a non-empty error message.
C6_RefusalReportsFailure ==
    [][ \A i \in DOMAIN transferCalls :
           Resumes(i) /\ RefusedResp(transferCalls[i].resp) =>
              error' # NoError /\ ~isProcessing'
      ]_vars

\* C7 as claimed: a failed transfer request leaves the workflow Failed with
\* an error message and out of Processing, with both ImageRefs as they were
\* at submit (the paths the request carries), and the submit enabled.
C7_FailureKeepsImagesOfSubmit ==
    [][ \A i \in DOMAIN transferCalls :
           Resumes(i) /\ FailureResp(transferCalls[i].resp) =>
              /\ error' = "Style transfer failed: "
                             \o transferCalls[i].resp.message
              /\ ~isProcessing'
              /\ contentImage' # Null
              /\ styleImage' # Null
              /\ contentImage'.path = transferCalls[i].data.content_image
              /\ styleImage'.path = transferCalls[i].data.style_image
      ]_vars

\* C7 as amended: a failed transfer request leaves the workflow Failed with
\* an error message and out of Processing, with both ImageRefs present and
\* as they were right before the failure was handled, and the submit
\* enabled with no upload in between.
C7_FailureKeepsImages ==
    [][ \A i \in DOMAIN transferCalls :
           Resumes(i) /\ FailureResp(transferCalls[i].resp) =>
              /\ error' = "Style transfer failed: "
                             \o transferCalls[i].resp.message
              /\ ~isProcessing'
              /\ contentImage' # Null
              /\ styleImage' # Null
              /\ UNCHANGED <<contentImage, styleImage>>
              /\ \A m \in BOOLEAN : (ENABLED ClickTransfer(m))'
      ]_vars

\* C7 witness: the backend answered 500; the error is shown, Processing is
\* over, both images are in place and no call is in flight
C7_Witness ==
    /\ error = "Style transfer failed: Request failed with status code 500"
    /\ ~isProcessing
    /\ ~ImageMissing
    /\ transferCalls = <<>>
    /\ uploadCalls = <<>>

\* C8: the state a success:true answer produces carries no error.
C8_SuccessLeavesNoError ==
    [][ \A i \in DOMAIN transferCalls :
           Resumes(i) /\ SuccessResp(transferCalls[i].resp) =>
              error' = NoError
      ]_vars

\* this step empties a slot that held an ImageRef or a result
ClearsSlot ==
    \/ contentImage # Null /\ contentImage' = Null
    \/ styleImage # Null /\ styleImage' = Null
    \/ resultImage # Null /\ resultImage' = Null

\* C9: right after a reset the content ImageRef, the style ImageRef, the
\* result and the error are all empty, and no step empties one of the
\* first three without emptying them all.
C9_ResetClearsAll ==
    [][ (ClickReset \/ ClearsSlot) =>
           /\ contentImage' = Null
           /\ styleImage' = Null
           /\ resultImage' = Null
           /\ error' = NoError
      ]_vars

\* C9 witness: every slot is empty although two uploads had succeeded, so
\* a reset has emptied them
C9_Witness ==
    /\ contentImage = Null
    /\ styleImage = Null
    /\ resultImage = Null
    /\ error = NoError
    /\ blobSeq >= 2
    /\ ~isProcessing

\* the preview handles of the ImageRefs held now
CurrentPreviews ==
    {img.preview : img \in {contentImage, styleImage} \ {Null}}

\* C10: the blob URLs created and not released are exactly the preview
\* handles of the current ImageRefs.
C10_NoPreviewLeak == objectURLs = CurrentPreviews

----------------------------------------------------------------------------
(* Properties of the uploads *)

\* this step is an upload handler resuming for the i-th upload call
UploadResumes(i) ==
    /\ i \in DOMAIN uploadCalls
    /\ uploadCalls[i].resp # Pending
    /\ uploadCalls' = Remove(uploadCalls, i)

\* the upload did not yield an ImageRef: the request was rejected, or its
\* 2xx body carries no data
UploadFailed(r) == r.status = "error" \/ r.data = Null

\* C11: when an upload fails, both ImageRefs (the role's own, empty or not,
\* included) stay as they were, no preview handle is created, and the error
\* shown names the role of the failed upload followed by the failure's
\* message.
C11_FailedUploadKeepsImageRef ==
    [][ \A i \in DOMAIN uploadCalls :
           UploadResumes(i) /\ UploadFailed(uploadCalls[i].resp) =>
              /\ UNCHANGED <<contentImage, styleImage, objectURLs, blobSeq>>
              /\ error' = "Failed to upload " \o uploadCalls[i].role
                             \o " image: "
                             \o ErrMessage(uploadCalls[i].resp, "filename")
      ]_vars

\* C11 witness: a re-upload of the content image was rejected with 413; the
\* error names it and the content ImageRef of the earlier upload is held
C11_Witness ==
    /\ error = "Failed to upload content image: "
                  \o "Request failed with status code 413"
    /\ contentImage # Null
    /\ blobSeq = 1
    /\ uploadCalls = <<>>

\* this step starts an upload for the given role
IssuesUpload(role) ==
    /\ Len(uploadCalls') = Len(uploadCalls) + 1
    /\ uploadCalls'[Len(uploadCalls')].role = role

\* this step is the upload handler of the given role, starting an upload or
\* resuming after one, whatever the upload's outcome
UploadStep(role) ==
    \/ IssuesUpload(role)
    \/ \E i \in DOMAIN uploadCalls :
          UploadResumes(i) /\ uploadCalls[i].role = role

\* C12: the two upload roles are independent: no step of a content upload,
\* succeeded or failed, changes the style ImageRef, and no step of a style
\* upload changes the content ImageRef, however the uploads interleave.
C12_UploadRolesIndependent ==
    [][ /\ UploadStep("content") => UNCHANGED styleImage
        /\ UploadStep("style") => UNCHANGED contentImage
      ]_vars

\* C12 witness: a style upload and then a content upload succeeded; each
\* filled its own slot and left the other's as it was
C12_Witness ==
    /\ styleImage # Null
    /\ styleImage.filename = "u_vangogh.png"
    /\ styleImage.preview = 1
    /\ contentImage # Null
    /\ contentImage.filename = "u_cat.png"
    /\ contentImage.preview = 2
    /\ uploadCalls = <<>>

----------------------------------------------------------------------------
(* Properties of the stored result and of the requests *)

\* C13: the stored result changes only when a submission succeeds, which
\* replaces it by that submission's result, or at a reset, which clears it;
\* every other step (an upload or re-upload, a rejected submit, a submit
\* starting, a refused or failed submission) leaves it as it is.
C13_ResultChangesOnlyOnSuccessOrReset ==
    [][ resultImage' # resultImage =>
           \/ \E i \in DOMAIN transferCalls :
                 /\ Resumes(i)
                 /\ SuccessResp(transferCalls[i].resp)
                 /\ resultImage'.filename
                       = transferCalls[i].resp.data.output_image
           \/ /\ resultImage' = Null
              /\ contentImage' = Null
              /\ styleImage' = Null
              /\ UNCHANGED <<uploadCalls, transferCalls>>
      ]_vars

\* C13 witness: a submission failed after an earlier one had succeeded and a
\* re-upload had been made; the earlier result is still shown
C13_Witness ==
    /\ resultImage # Null
    /\ resultImage.filename = "result_001.png"
    /\ IsTransferFailure(error)
    /\ blobSeq = 3
    /\ ~isProcessing

\* the request the last accepted submit issued
LastCall == transferCalls[Len(transferCalls)]

\* C14: a step that issues a transfer request is a submit accepted outside
\* Processing and issues exactly one, not yet answered; a quick submit posts
\* {content_image, style_image, intensity}, without a quality field, to
\* /api/quick-transfer, a standard submit posts {content_image, style_image,
\* intensity, quality} to /api/transfer; the paths are those of the
\* ImageRefs held at that moment, intensity and quality the current
\* settings; the quick button's submit goes to /api/quick-transfer and the
\* standard button's to /api/transfer; and the handling of an answer,
\* whatever it is, takes its request out of flight and issues none.
C14_OneRequestPerSubmit ==
    [][ /\ IssuesTransfer =>
             /\ ~isProcessing
             /\ isProcessing'
             /\ transferCalls' = Append(transferCalls, LastCall')
             /\ LastCall'.resp = Pending
             /\ LastCall'.url \in {"/api/quick-transfer", "/api/transfer"}
             /\ LastCall'.url = "/api/quick-transfer" =>
                   DOMAIN LastCall'.data
                      = {"content_image", "style_image", "intensity"}
             /\ LastCall'.url = "/api/transfer" =>
                   /\ DOMAIN LastCall'.data
                         = {"content_image", "style_image", "intensity",
                            "quality"}
                   /\ LastCall'.data.quality = quality
             /\ LastCall'.data.content_image = contentImage.path
             /\ LastCall'.data.style_image = styleImage.path
             /\ LastCall'.data.intensity = styleIntensity
        /\ \A m \in BOOLEAN :
              ClickTransfer(m) =>
                 /\ IssuesTransfer
                 /\ LastCall'.url = IF m THEN "/api/quick-transfer"
                                         ELSE "/api/transfer"
        /\ \A i \in DOMAIN transferCalls :
              Resumes(i) => Len(transferCalls') = Len(transferCalls) - 1
      ]_vars

\* C14 witness: a quick request is in flight, issued after the quality was
\* set to high and both images were uploaded; it carries no quality field
C14_Witness ==
    /\ Len(transferCalls) = 1
    /\ transferCalls[1].url = "/api/quick-transfer"
    /\ transferCalls[1].data =
          [content_image |-> "uploads/u_cat.png",
           style_image   |-> "uploads/u_vangogh.png",
           intensity     |-> 20]
    /\ quality = "high"

\* C15: every transfer request in flight carries an intensity within
\* [0.1, 2.0], and so does the intensity setting itself: a value outside the
\* range never reaches a submit.
C15_IntensityInRange ==
    /\ styleIntensity \in IntensityMin..IntensityMax
    /\ \A i \in DOMAIN transferCalls :
          transferCalls[i].data.intensity \in IntensityMin..IntensityMax

\* C15 witness: a request is in flight that carries the slider's maximum
\* 2.0, the most the slider yields when 2.5 is asked of it
C15_Witness ==
    /\ Len(transferCalls) = 1
    /\ transferCalls[1].data.intensity = RangeValue(25, IntensityMin, IntensityMax)
    /\ transferCalls[1].resp = Pending

----------------------------------------------------------------------------
(* Properties of the style mixer *)

\* C16: the mixer always holds between 1 and 4 entries; addStyle with 4
\* entries and removeStyle with 1 entry leave the list as it is.
C16_OneToFourEntries ==
    /\ [](Len(styles) \in 1..MaxStyles)
    /\ [][ /\ (Len(styles) = MaxStyles /\ addStyle) => UNCHANGED styles
           /\ \A i \in DOMAIN styles :
                 (Len(styles) = 1 /\ removeStyle(styles[i].id))
                    => UNCHANGED styles
         ]_vars

\* every entry's weight is positive
AllPositive ==
    \A i \in DOMAIN styles :
       LET w == styles[i].weight
       IN IsFinite(w) /\ ~IsZero(w) /\ ~w.neg

\* the tolerance 1e-6 within which a sum of weights counts as 1.0
Tolerance == NumberDiv(NumberOf(1), NumberOf(1000000))

\* C17 as claimed: for one to four entries whose weights are all positive,
\* the list Mix Styles hands over has, entry by entry, the weight weight_i
\* divided by the sum of all weights, and these weights sum to 1.0.
C17_MixSumsToOne ==
    (mixed # <<>> /\ Len(styles) \in 1..MaxStyles /\ AllPositive) =>
        LET out == mixed[1]
        IN /\ Len(out) = Len(styles)
           /\ \A i \in DOMAIN styles :
                 out[i].weight
                    = NumberDiv(styles[i].weight, SumWeights(styles))
           /\ SumWeights(out) = NumberOf(1)

\* C17 as amended: for one to four entries whose weights are all positive,
\* the list Mix Styles hands over has, entry by entry, the weight weight_i
\* divided by the sum of all weights, each in (0, 1], and these weights sum
\* to 1.0 within the tolerance 1e-6.
C17_MixNormalizes ==
    (mixed # <<>> /\ Len(styles) \in 1..MaxStyles /\ AllPositive) =>
        LET out == mixed[1]
        IN /\ Len(out) = Len(styles)
           /\ \A i \in DOMAIN styles :
                 /\ out[i].weight
                       = NumberDiv(styles[i].weight, SumWeights(styles))
                 /\ IsFinite(out[i].weight)
                 /\ ~IsZero(out[i].weight) /\ ~out[i].weight.neg
                 /\ NumberLeq(out[i].weight, NumberOf(1))
           /\ NumberLeq(NumberAbs(NumberSub(SumWeights(out), NumberOf(1))),
                        Tolerance)

\* C17 witness: two entries weighing 0.2 and 0.6 were mixed into 0.25 and
\* 0.7499999999999999, which sum to 0.9999999999999999
C17_Witness ==
    /\ Len(styles) = 2
    /\ styles[1].weight = parseFloat(2)
    /\ styles[2].weight = parseFloat(6)
    /\ mixed # <<>>
    /\ mixed[1][1].weight = Num(FALSE, 8388608, 0, -54)
    /\ mixed[1][2].weight = Num(FALSE, 12582911, 536870911, -53)
    /\ SumWeights(mixed[1]) = Num(FALSE, 16777215, 536870911, -53)

\* C18: Mix Styles never hands over the outcome of a division by zero:
\* every weight in the list it hands to onMixStyles is a finite number, also
\* when all the entries' weights are 0.
C18_MixNeverDividesByZero ==
    mixed # <<>> =>
        \A i \in DOMAIN mixed[1] : IsFinite(mixed[1][i].weight)

\* C19: Mix Styles hands one list to onMixStyles, with the entries' ids and
\* names in their order and each weight divided by the sum of the weights,
\* and leaves the mixer's entries (raw weights, ids, count) as they are; a
\* weight slider stores the value it yields as it is, rescaling nothing.
C19_MixLeavesEntriesUnchanged ==
    [][ /\ mixed' # <<>> =>
             /\ UNCHANGED styles
             /\ Len(mixed') = 1
             /\ Len(mixed'[1]) = Len(styles)
             /\ \A i \in DOMAIN styles :
                   /\ mixed'[1][i].id = styles[i].id
                   /\ mixed'[1][i].name = styles[i].name
                   /\ mixed'[1][i].weight
                         = NumberDiv(styles[i].weight, SumWeights(styles))
        /\ \A i \in DOMAIN styles : \A v \in WeightInputs :
              SlideWeight(i, v) =>
                 /\ Len(styles') = Len(styles)
                 /\ styles'[i].weight
                       = parseFloat(RangeValue(v, WeightMin, WeightMax))
                 /\ mixed' = <<>>
      ]_vars

\* C19 witness: two entries weighing 0.3 and 1.0 were mixed into
\* 0.23076923076923075 and 0.7692307692307692, and still weigh 0.3 and 1.0
C19_Witness ==
    /\ Len(styles) = 2
    /\ styles[1].weight = parseFloat(3)
    /\ styles[2].weight = parseFloat(10)
    /\ mixed # <<>>
    /\ mixed[1][1].weight = Num(FALSE, 15486660, 495573149, -55)
    /\ mixed[1][2].weight = Num(FALSE, 12905550, 412977624, -53)

\* w lies between the min and the max of a weight slider
InSliderRange(w) ==
    /\ IsFinite(w)
    /\ NumberLeq(parseFloat(WeightMin), w)
    /\ NumberLeq(w, parseFloat(WeightMax))

\* C20: every stored weight lies in [0, 1] in every reachable state; the
\* value asked of a weight slider is stored brought into [0, 1] (a value
\* below 0 as 0, a value above 1 as 1), and a move of a slider changes the
\* weight only, and of no entry whose id is not that of the slider's entry.
C20_WeightsInRange ==
    /\ [](\A i \in DOMAIN styles : InSliderRange(styles[i].weight))
    /\ [][ \A i \in DOMAIN styles : \A v \in WeightInputs :
              SlideWeight(i, v) =>
                 /\ Len(styles') = Len(styles)
                 /\ \A j \in DOMAIN styles :
                       IF styles[j].id = styles[i].id
                       THEN /\ styles'[j].id = styles[j].id
                            /\ styles'[j].name = styles[j].name
                            /\ InSliderRange(styles'[j].weight)
                            /\ styles'[j].weight =
                                  parseFloat(IF v < WeightMin THEN WeightMin
                                             ELSE IF v > WeightMax
                                                  THEN WeightMax
                                                  ELSE v)
                       ELSE styles'[j] = styles[j]
         ]_vars

\* C20 witness: of two entries with different ids the first was slid to the
\* slider's maximum and the second still has its initial weight
C20_Witness ==
    /\ Len(styles) = 2
    /\ styles[1].id # styles[2].id
    /\ styles[1].weight = parseFloat(WeightMax)
    /\ styles[2].weight = parseFloat(5)

----------------------------------------------------------------------------
(* Properties of the gallery *)

\* this step is handleDelete resuming for the i-th delete call of the
\* mounted Gallery
DeleteCompletes(i) ==
    /\ i \in DOMAIN deleteCalls
    /\ deleteCalls[i].resp # Pending
    /\ deleteCalls[i].mounted
    /\ deleteCalls' = Remove(deleteCalls, i)

\* the filenames of a list of entries
Filenames(list) == {list[k].filename : k \in DOMAIN list}

\* C21: a completed delete of the selected entry clears the selection, and
\* a completed delete of another entry leaves the selection as it is, also
\* when the selection was made while the delete was in flight.
C21_DeleteKeepsOtherSelection ==
    [][ \A i \in DOMAIN deleteCalls :
           (DeleteCompletes(i) /\ deleteCalls[i].resp.status = "ok"
              /\ selectedImage # Null) =>
              IF selectedImage.filename = deleteCalls[i].filename
              THEN selectedImage' = Null
              ELSE selectedImage' = selectedImage
      ]_vars

\* C22: a delete that completes successfully leaves its filename out of the
\* cache, and no completing delete brings an entry into the cache that was
\* not in it: what was deleted stays out until the gallery is listed again.
C22_DeletedStaysOut ==
    [][ \A i \in DOMAIN deleteCalls :
           DeleteCompletes(i) =>
              /\ deleteCalls[i].resp.status = "ok" =>
                    deleteCalls[i].filename \notin Filenames(images')
              /\ Filenames(images') \subseteq Filenames(images)
      ]_vars

\* C25: a delete the user declines issues no request and changes neither
\* the cache nor the selection; a delete whose request fails changes neither
\* of them; and a step that takes an entry out of the cache of the mounted
\* gallery is the completion of a delete that was confirmed and succeeded.
C25_DeleteOnlyAfterConfirmAndSuccess ==
    [][ /\ \A k \in DOMAIN images :
              ClickItemDelete(k, FALSE) =>
                 UNCHANGED <<images, selectedImage, deleteCalls>>
        /\ ClickPreviewDelete(FALSE) =>
              UNCHANGED <<images, selectedImage, deleteCalls>>
        /\ \A i \in DOMAIN deleteCalls :
              (DeleteCompletes(i) /\ deleteCalls[i].resp.status = "error") =>
                 UNCHANGED <<images, selectedImage>>
        /\ (showGallery /\ showGallery' /\ ~loading
              /\ ~(Filenames(images) \subseteq Filenames(images'))) =>
              \E i \in DOMAIN deleteCalls :
                 /\ DeleteCompletes(i)
                 /\ deleteCalls[i].resp.status = "ok"
      ]_vars

\* C25 witness: the delete of the selected entry was answered 404; the alert
\* is shown, the entry is still listed and still selected
C25_Witness ==
    /\ alerted
    /\ showGallery
    /\ selectedImage # Null
    /\ selectedImage.filename \in Filenames(images)
    /\ Len(images) = Len(GalleryFiles)
    /\ deleteCalls = <<>>

----------------------------------------------------------------------------
(* Properties across the components *)

\* err.message of the failures an upload call can end with
UploadErrMessages ==
    {"Request failed with status code 413",
     "Cannot read properties of undefined (reading 'filename')"}

\* e is the message of a failed upload
IsUploadFailure(e) ==
    \E role \in {"content", "style"} : \E m \in UploadErrMessages :
       e = "Failed to upload " \o role \o " image: " \o m

\* this step is an upload handler starting or resuming
AnyUploadStep == UploadStep("content") \/ UploadStep("style")

\* this step is handleStyleTransfer issuing its request or resuming
AnySubmitStep ==
    IssuesTransfer \/ \E i \in DOMAIN transferCalls : Resumes(i)

\* C23: uploads and submits write disjoint state: a step of an upload
\* changes nothing a submit writes (Processing, progress, result, a reported
\* transfer failure), and a step of a submit changes nothing an upload
\* writes (the ImageRefs, their previews, a reported upload failure).
C23_UploadAndSubmitDisjoint ==
    [][ /\ AnyUploadStep =>
             /\ UNCHANGED <<isProcessing, processingProgress, resultImage>>
             /\ IsTransferFailure(error) => error' = error
        /\ AnySubmitStep =>
             /\ UNCHANGED <<contentImage, styleImage, objectURLs>>
             /\ IsUploadFailure(error) => error' = error
      ]_vars

\* C24: every accepted submit eventually leaves Processing, whatever the
\* request ends with: Processing always leads to not Processing.
C24_ProcessingEnds == isProcessing ~> ~isProcessing

\* C24 witness: a quick submit ran into its timeout; Processing is over
C24_Witness ==
    /\ error = "Style transfer failed: timeout of 300000ms exceeded"
    /\ ~isProcessing
    /\ transferCalls = <<>>

\* C26: after a reset, as long as the user starts no new upload, both
\* ImageRef slots stay empty: an upload that was in flight when the reset
\* ran fills none when its response arrives.
C26_ResetStaysIdle ==
    [][ EmptiedByReset => (contentImage' = Null /\ styleImage' = Null) ]_vars

\* C27: when the upload of a first file and the upload of a second file,
\* selected later for the same role, overlap and both succeed, the role's
\* ImageRef ends as the one of the second file: the first upload, completing
\* after the second, leaves the second's ImageRef in place.
C27_LastSelectedWins ==
    [][ \A i \in DOMAIN uploadCalls :
           LET c == uploadCalls[i] IN
           (/\ UploadResumes(i)
            /\ ~UploadFailed(c.resp)
            /\ c.file = FirstFile
            /\ Slot(c.role) # Null
            /\ Slot(c.role).filename = UploadData(SecondFile).filename) =>
              \A role \in {"content", "style"} :
                 role = c.role =>
                    Slot(role)'.filename = UploadData(SecondFile).filename
      ]_vars

\* C28: the ids of the mixer's entries are pairwise distinct in every
\* reachable state, so that removing an entry takes exactly one entry out of
\* a list of more than one and a weight slider changes at most the entry it
\* belongs to.
C28_IdsDistinct ==
    /\ [](\A i, j \in DOMAIN styles : i # j => styles[i].id # styles[j].id)
    /\ [][ /\ \A i \in DOMAIN styles :
                 (Len(styles) > 1 /\ removeStyle(styles[i].id))
                    => Len(styles') = Len(styles) - 1
           /\ \A i \in DOMAIN styles : \A v \in WeightInputs :
                 SlideWeight(i, v) =>
                    \A j \in DOMAIN styles : j # i => styles'[j] = styles[j]
         ]_vars

====
